---- MODULE Spec2Model ----
(***************************************************************************)
(* Model of the Samba AD domain-controller inithook                        *)
(* (overlay/usr/lib/inithooks/bin/domain-controller.py and the             *)
(* dialog_wrapper.py it imports).                                          *)
(*                                                                         *)
(* Text is a sequence of one-character strings.  Python's False is the     *)
(* one-element sequence PyFalse, the tuple (False, msg) that error_msg     *)
(* returns in an interactive session is Err(msg), None and "" are <<>>.    *)
(***************************************************************************)
EXTENDS Integers, Sequences, FiniteSets, TLC

(***************************************************************************)
(* Text helpers (Python str methods used by the script)                    *)
(***************************************************************************)
PyFalse == <<"!False">>
Err(msg) == <<"!False", msg>>
IsErr(v) == Len(v) = 2 /\ v[1] = "!False"
\* truthiness of a str / None / False value
Truthy(v) == v # <<>> /\ v # PyFalse
\* truthiness of v[0] for a non-empty str or an error tuple
FirstTruthy(v) == v[1] # "!False"

LowerChars == <<"a","b","c","d","e","f","g","h","i","j","k","l","m",
                "n","o","p","q","r","s","t","u","v","w","x","y","z">>
UpperChars == <<"A","B","C","D","E","F","G","H","I","J","K","L","M",
                "N","O","P","Q","R","S","T","U","V","W","X","Y","Z">>
DigitChars == <<"0","1","2","3","4","5","6","7","8","9">>

Range(s) == {s[i] : i \in DOMAIN s}
IsAlphaChar(c) == c \in Range(LowerChars) \cup Range(UpperChars)
IsDigitChar(c) == c \in Range(DigitChars)
IsAlnumChar(c) == IsAlphaChar(c) \/ IsDigitChar(c)
\* str.isalnum(): false on the empty string
IsAlnum(s) == s # <<>> /\ \A i \in DOMAIN s : IsAlnumChar(s[i])

UpperChar(c) ==
  IF c \in Range(LowerChars)
  THEN UpperChars[CHOOSE i \in DOMAIN LowerChars : LowerChars[i] = c]
  ELSE c
LowerChar(c) ==
  IF c \in Range(UpperChars)
  THEN LowerChars[CHOOSE i \in DOMAIN UpperChars : UpperChars[i] = c]
  ELSE c
Upper(s) == [i \in DOMAIN s |-> UpperChar(s[i])]
Lower(s) == [i \in DOMAIN s |-> LowerChar(s[i])]

StartsWith(s, p) == Len(s) >= Len(p) /\ SubSeq(s, 1, Len(p)) = p

\* str.split(sep) for a one-character separator
RECURSIVE SplitAcc(_, _, _, _)
SplitAcc(s, sep, cur, acc) ==
  IF s = <<>> THEN Append(acc, cur)
  ELSE IF Head(s) = sep THEN SplitAcc(Tail(s), sep, <<>>, Append(acc, cur))
  ELSE SplitAcc(Tail(s), sep, Append(cur, Head(s)), acc)
Split(s, sep) == SplitAcc(s, sep, <<>>, <<>>)

\* sep.join(parts)
RECURSIVE Join(_, _)
Join(sep, parts) ==
  IF parts = <<>> THEN <<>>
  ELSE IF Len(parts) = 1 THEN parts[1]
  ELSE parts[1] \o sep \o Join(sep, Tail(parts))

\* str.strip(ch) for a one-character set
RECURSIVE LStrip(_, _)
LStrip(s, ch) == IF s # <<>> /\ Head(s) = ch THEN LStrip(Tail(s), ch) ELSE s
RECURSIVE RStrip(_, _)
RStrip(s, ch) ==
  IF s # <<>> /\ s[Len(s)] = ch THEN RStrip(SubSeq(s, 1, Len(s) - 1), ch) ELSE s
Strip(s, ch) == RStrip(LStrip(s, ch), ch)

(***************************************************************************)
(* Module constants                                                        *)
(***************************************************************************)
ADMIN_USER == <<"a", "d", "m", "i", "n", "i", "s", "t", "r", "a", "t", "o", "r">>
RESOLVCNF_HEAD == "/etc/resolvconf/resolv.conf.d/head"
RESOLVCNF_BAK == "/etc/resolvconf/resolv.conf.d/head.bak"
HOSTS_FILE == "/etc/hosts"
HOSTS_BAK == "/etc/hosts.bak"
COMMAND_LOG == "/var/log/inithooks/samba_dc.log"
ETC_HOSTNAME == "/etc/hostname"
SMB_CONF == "/etc/samba/smb.conf"
KRB5_CONF == "/etc/krb5.conf"
SAMBA_DBS == "/var/lib/samba/*.tdb"
KEYTAB == "/etc/krb5.keytab"

DEFAULT_HOSTNAME == <<"d", "c", "1">>
DEFAULT_NEW_HOSTNAME == <<"d", "c", "2">>
INIT_DEFAULT_REALM == <<"D", "O", "M", "A", "I", "N", ".", "L", "A", "N">>
INIT_DEFAULT_DOMAIN == <<"D", "O", "M", "A", "I", "N">>
LOCALDOMAIN == <<"1", "2", "7", ".", "0", ".", "1", ".", "1">>
LOCALHOST_NS == <<"1", "2", "7", ".", "0", ".", "0", ".", "1">>

(***************************************************************************)
(* Validators                                                              *)
(***************************************************************************)
\* value of a digit string in the given base
RECURSIVE NumVal(_, _)
NumVal(ds, base) ==
  IF ds = <<>> THEN 0
  ELSE NumVal(SubSeq(ds, 1, Len(ds) - 1), base) * base
       + ((CHOOSE i \in DOMAIN DigitChars : DigitChars[i] = ds[Len(ds)]) - 1)

\* one component of an inet_aton address: decimal, or octal with a leading 0
\* (hexadecimal components lie outside the input alphabet of this model)
IsNumber(p) ==
  /\ p # <<>>
  /\ \A i \in DOMAIN p : IsDigitChar(p[i])
  /\ (Len(p) > 1 /\ p[1] = "0") => \A i \in DOMAIN p : p[i] \notin {"8", "9"}
NumberOf(p) == IF Len(p) > 1 /\ p[1] = "0" THEN NumVal(p, 8) ELSE NumVal(p, 10)

RECURSIVE Pow256(_)
Pow256(n) == IF n = 0 THEN 1 ELSE 256 * Pow256(n - 1)

\* socket.inet_aton(address) succeeds: one to four numeric components, every
\* component but the last at most 255, the last one filling the remaining
\* bytes; text after the first blank is ignored
InetAtonOk(address) ==
  LET parts == Split(Split(address, " ")[1], ".")
      n == Len(parts)
  IN /\ n \in 1..4
     /\ \A i \in 1..n : IsNumber(parts[i])
     /\ \A i \in 1..(n - 1) : NumberOf(parts[i]) <= 255
     /\ NumberOf(parts[n]) < Pow256(5 - n)

valid_ip(address) == IF InetAtonOk(address) THEN address ELSE PyFalse

\* the error messages validate_realm raises, in the order the code meets them
RECURSIVE RealmBitErrors(_)
RealmBitErrors(bits) ==
  IF bits = <<>> THEN <<>>
  ELSE LET bit == Head(bits)
       IN (IF Len(bit) < 0 \/ Len(bit) > 63 THEN <<"realm segment length">> ELSE <<>>)
          \o (IF ~IsAlnum(bit) \/ ~IsAlphaChar(bit[1])
              THEN <<"realm segment characters">> ELSE <<>>)
          \o RealmBitErrors(Tail(bits))
RealmErrors(realm) ==
  LET r == Strip(realm, ".")
  IN (IF Len(r) > 255 THEN <<"realm length">> ELSE <<>>)
     \o RealmBitErrors(Split(r, "."))

\* validate_realm in an interactive session: the last error met, as
\* (False, msg), or the stripped realm in upper case
validate_realm(realm) ==
  LET errs == RealmErrors(realm)
  IN IF errs # <<>> THEN Err(errs[Len(errs)]) ELSE Upper(Strip(realm, "."))

\* validate_netbios in an interactive session
validate_netbios(domain) ==
  IF Len(domain) < 1 \/ Len(domain) > 15 THEN Err("netbios length")
  ELSE IF ~IsAlnum(domain) \/ ~IsAlphaChar(domain[1]) THEN Err("netbios characters")
  ELSE Upper(domain)

\* validate_hostname in an interactive session; dns is the outcome of
\* check_dns(fqdn), which is asked only when the syntax checks pass
HostnameSyntaxErr(hostname, default) ==
  IF hostname = default THEN "hostname is default"
  ELSE IF Len(Split(hostname, ".")) > 1 THEN "hostname has domain"
  ELSE IF \E i \in DOMAIN hostname :
            ~(IsAlnumChar(hostname[i]) \/ hostname[i] \in {"_", "-"})
       THEN "hostname characters"
  ELSE ""
validate_hostname(hostname, default, dns) ==
  IF HostnameSyntaxErr(hostname, default) # ""
  THEN Err(HostnameSyntaxErr(hostname, default))
  ELSE IF dns THEN Err("hostname registered")
  ELSE hostname

(***************************************************************************)
(* The file system.  A disk is [files, ops]: files maps a path to its      *)
(* content (a sequence of lines or chunks), Absent when there is no such   *)
(* file; ops is the trace of file operations of the current attempt, each  *)
(* <<kind, path>> with kind "backup" (copy2 path -> path.bak), "write",    *)
(* "remove", "restore" (move path.bak -> path) or "rmbak".                 *)
(***************************************************************************)
Absent == << <<"!absent">> >>
Paths == {RESOLVCNF_HEAD, RESOLVCNF_BAK, HOSTS_FILE, HOSTS_BAK, COMMAND_LOG,
          ETC_HOSTNAME, SMB_CONF, KRB5_CONF, SAMBA_DBS, KEYTAB}
BakOf(path) == IF path = RESOLVCNF_HEAD THEN RESOLVCNF_BAK ELSE HOSTS_BAK

\* shutil.copy2(path, path.bak)
Backup(d, path) ==
  [files |-> [d.files EXCEPT ![BakOf(path)] = d.files[path]],
   ops |-> Append(d.ops, <<"backup", path>>)]
\* open(path, 'w') ... write
WriteFile(d, path, content) ==
  [files |-> [d.files EXCEPT ![path] = content],
   ops |-> Append(d.ops, <<"write", path>>)]
\* rm_f(path): a missing file is not an error
rm_f(d, path) ==
  IF d.files[path] = Absent THEN d
  ELSE [files |-> [d.files EXCEPT ![path] = Absent],
        ops |-> Append(d.ops, <<"remove", path>>)]
\* shutil.move(path.bak, path); the caller has checked that path.bak exists
MoveBack(d, path) ==
  [files |-> [d.files EXCEPT ![path] = d.files[BakOf(path)],
                             ![BakOf(path)] = Absent],
   ops |-> Append(d.ops, <<"restore", path>>)]

T_nameserver == <<"n", "a", "m", "e", "s", "e", "r", "v", "e", "r">>
T_search == <<"s", "e", "a", "r", "c", "h">>
T_domain == <<"d", "o", "m", "a", "i", "n">>
ResolvTerms == <<T_nameserver, T_search, T_domain>>

\* the inner loop of update_resolvconf over the terms, for one line
RECURSIVE ResolvLine(_, _, _, _)
ResolvLine(line, terms, domain, nameserver) ==
  IF terms = <<>> THEN line
  ELSE LET term == Head(terms)
           value == IF term = T_nameserver THEN nameserver ELSE domain
           new == IF StartsWith(line, term)
                  THEN term \o <<" ">> \o value \o <<"\n">>
                  ELSE line
       IN ResolvLine(new, Tail(terms), domain, nameserver)
ResolvRewrite(lines, domain, nameserver) ==
  [i \in DOMAIN lines |-> ResolvLine(lines[i], ResolvTerms, domain, nameserver)]

\* update_resolvconf once the nameserver has answered the ping
update_resolvconf(d, domain, nameserver) ==
  LET d1 == Backup(d, RESOLVCNF_HEAD)
  IN WriteFile(d1, RESOLVCNF_HEAD,
               ResolvRewrite(d1.files[RESOLVCNF_HEAD], domain, nameserver))

\* the loop of update_hosts without the removal of the lines that begin with
\* the address
RECURSIVE HostsRewriteKeepsIp(_, _, _, _)
HostsRewriteKeepsIp(lines, ip, hostname, fqdn) ==
  IF lines = <<>> THEN <<>>
  ELSE LET line == Head(lines)
           alias == Join(<<" ">>, <<LOCALDOMAIN, hostname, fqdn>>) \o <<"\n">>
           real == Join(<<" ">>, <<ip, hostname, fqdn>>) \o <<"\n">>
           out == IF StartsWith(line, <<"#">>) THEN <<line>>
                  ELSE IF StartsWith(line, LOCALDOMAIN)
                       THEN IF ip # LOCALDOMAIN THEN <<alias, real>> ELSE <<alias>>
                  ELSE <<line>>
       IN out \o HostsRewriteKeepsIp(Tail(lines), ip, hostname, fqdn)

\* the loop of update_hosts over the lines of the hosts file; a line set to
\* '' writes nothing and is left out
RECURSIVE HostsRewrite(_, _, _, _)
HostsRewrite(lines, ip, hostname, fqdn) ==
  IF lines = <<>> THEN <<>>
  ELSE LET line == Head(lines)
           alias == Join(<<" ">>, <<LOCALDOMAIN, hostname, fqdn>>) \o <<"\n">>
           real == Join(<<" ">>, <<ip, hostname, fqdn>>) \o <<"\n">>
           out == IF StartsWith(line, <<"#">>) THEN <<line>>
                  ELSE IF StartsWith(line, LOCALDOMAIN)
                       THEN IF ip # LOCALDOMAIN THEN <<alias, real>> ELSE <<alias>>
                  ELSE IF StartsWith(line, ip) THEN <<>>
                  ELSE <<line>>
       IN out \o HostsRewrite(Tail(lines), ip, hostname, fqdn)

\* update_hosts writing the file without the copy to .bak first
update_hosts_nobackup(d, ip, hostname, domain) ==
  LET fqdn == Lower(Join(<<".">>, <<hostname, domain>>))
  IN WriteFile(d, HOSTS_FILE, HostsRewrite(d.files[HOSTS_FILE], ip, hostname, fqdn))

update_hosts(d, ip, hostname, domain) ==
  LET d1 == Backup(d, HOSTS_FILE)
      fqdn == Lower(Join(<<".">>, <<hostname, domain>>))
  IN WriteFile(d1, HOSTS_FILE, HostsRewrite(d1.files[HOSTS_FILE], ip, hostname, fqdn))

\* a restore that copies the backup over the file and leaves the backup
restore_hosts_copy(d) ==
  [files |-> [d.files EXCEPT ![HOSTS_FILE] = d.files[HOSTS_BAK]],
   ops |-> Append(d.ops, <<"restore", HOSTS_FILE>>)]

restore_resolvconf(d) == MoveBack(d, RESOLVCNF_HEAD)
restore_hosts(d) == MoveBack(d, HOSTS_FILE)

RmBak(d, bak) ==
  IF d.files[bak] = Absent THEN d
  ELSE [files |-> [d.files EXCEPT ![bak] = Absent],
        ops |-> Append(d.ops, <<"rmbak", bak>>)]
cleanup(d) == RmBak(RmBak(d, RESOLVCNF_BAK), HOSTS_BAK)

\* set_hostname writes /etc/hostname (and runs the hostname command)
set_hostname(d, hostname) == WriteFile(d, ETC_HOSTNAME, <<hostname \o <<"\n">>>>)

\* the Kerberos client configuration a join attempt writes
JoinKrb5Conf(realm) ==
  << <<"[libdefaults]\n">>, <<"    dns_lookup_realm = false\n">>,
     <<"    dns_lookup_kdc = true\n">>, <<"    default_realm = ">> \o realm >>

\* stop of the Samba services is recorded in the services variable; the
\* removal of the Samba and Kerberos configuration and of the databases
ClearConfig(d) == rm_f(rm_f(rm_f(d, SMB_CONF), KRB5_CONF), SAMBA_DBS)

(***************************************************************************)
(* Command steps.  An argv is a sequence of arguments, an argument a text. *)
(***************************************************************************)
set_expiry == << <<"samba-tool">>, <<"user">>, <<"setexpiry">>, ADMIN_USER,
                 <<"--noexpiry">> >>
export_krb == << <<"samba-tool">>, <<"domain">>, <<"exportkeytab">>,
                 <<"/etc/krb5.keytab">> >>
config_krb == << <<"kinit">>, <<"administrator">> >>
ProvisionCmd(realm, domain, admin_password, net_ip) ==
  << <<"samba-tool">>, <<"domain">>, <<"provision">>, <<"--server-role=dc">>,
     <<"--use-rfc2307">>, <<"--dns-backend=SAMBA_INTERNAL">>,
     <<"--realm=">> \o realm, <<"--domain=">> \o domain,
     <<"--adminpass=">> \o admin_password,
     <<"--option=dns forwarder=8.8.8.8">>,
     <<"--option=interfaces=127.0.0.1 ">> \o net_ip >>
JoinCmd(realm) ==
  << <<"samba-tool">>, <<"domain">>, <<"join">>, Lower(realm), <<"DC">>,
     <<"--option='idmap_ldb:use rfc2307 = yes'">> >>

CreateCommands(realm, domain, admin_password, net_ip) ==
  <<ProvisionCmd(realm, domain, admin_password, net_ip), set_expiry, export_krb>>
\* the join list with the credential step after the join step
JoinCommandsSwapped(realm) == <<JoinCmd(realm), config_krb, export_krb>>
JoinCommands(realm) == <<config_krb, JoinCmd(realm), export_krb>>

\* the text appended to the failure log for a failed command
LogText(argv, output) ==
  <<"Command: ">> \o Join(<<" ">>, argv) \o <<"\n", "\n">> \o <<"\n">>
  \o output \o <<"\n">>

\* the condensed message main builds from the output of a failed step
FirstSegments(line, n) ==
  LET parts == Split(line, "-")
  IN Join(<<"-">>, SubSeq(parts, 1, IF Len(parts) < n THEN Len(parts) ELSE n))
S_bind == <<"F", "a", "i", "l", "e", "d", " ", "t", "o", " ", "b", "i", "n", "d">>
S_connect == <<"F", "a", "i", "l", "e", "d", " ", "t", "o", " ",
               "c", "o", "n", "n", "e", "c", "t">>
S_error == <<"E", "R", "R", "O", "R">>
RECURSIVE LinesToPrint(_, _)
LinesToPrint(lines, end) ==
  IF lines = <<>> THEN <<>>
  ELSE LET line == Head(lines)
       IN IF StartsWith(line, S_bind)
          THEN <<FirstSegments(line, 2)>> \o LinesToPrint(Tail(lines), end)
          ELSE IF StartsWith(line, S_connect)
          THEN <<FirstSegments(line, 1)>> \o LinesToPrint(Tail(lines), end)
          ELSE IF StartsWith(line, S_error)
          THEN <<FirstSegments(line, 2)>> \o LinesToPrint(Tail(lines), TRUE)
          ELSE (IF end THEN <<>> ELSE <<line>>) \o LinesToPrint(Tail(lines), end)
Condensed(output) ==
  Join(<<"\n">>, LinesToPrint(Split(output, "\n"), FALSE)
                 \o << <<>>, <<"See ", COMMAND_LOG, " for full output">> >>)
  \o <<"\n", "\n">>

(***************************************************************************)
(* Inputs: what the command line, the operator and the environment can     *)
(* supply                                                                  *)
(***************************************************************************)
HOSTNAME == <<"t", "k">>
NET_IP == <<"1", "0", ".", "0", ".", "0", ".", "5">>

Pw == <<"P", "w", "1">>
PwParen == <<"P", "(", "w", ")", "1">>
RealmGood == <<"a", "d", ".", "l", "a", "n">>
RealmBad == <<"a", ".", ".", "b">>
DomainGood == <<"a", "d">>
DomainBad == <<"2", "a", "d">>
IpGood == <<"1", "0", ".", "0", ".", "0", ".", "2">>
IpBad == <<"9", "9", "9", ".", "9", "9", "9", ".", "9", "9", "9", ".", "9", "9", "9">>
IpShort == <<"1", "0", ".", "0", ".", "2">>
HostGood == <<"d", "c", "2">>
HostDotted == <<"d", ".", "c">>

PassInputs == {Pw, PwParen}
RealmInputs == {RealmGood, RealmBad}
DomainInputs == {DomainGood, DomainBad}
IpInputs == {IpGood, IpBad, IpShort}
HostInputs == {HostGood, HostDotted}

OutError == <<"E", "R", "R", "O", "R", " ", "-", " ", "b", "a", "d", "\n",
              "T", "r", "a", "c", "e">>
OutBind == <<"F", "a", "i", "l", "e", "d", " ", "t", "o", " ", "b", "i", "n", "d",
             " ", "-", " ", "a", " ", "-", " ", "b">>
OutErrorThenBind == <<"E", "R", "R", "O", "R", " ", "-", " ", "b", "a", "d", "\n",
                      "F", "a", "i", "l", "e", "d", " ", "t", "o", " ", "b", "i", "n", "d",
                      " ", "-", " ", "x", " ", "-", " ", "y">>
Outputs == {OutError, OutBind, OutErrorThenBind}

L_localhost == <<"1", "2", "7", ".", "0", ".", "0", ".", "1", " ",
                 "l", "o", "c", "a", "l", "h", "o", "s", "t", "\n">>
L_alias == <<"1", "2", "7", ".", "0", ".", "1", ".", "1", " ", "t", "k", "\n">>
L_comment == <<"#", " ", "n", "e", "t", "\n">>
L_netip == <<"1", "0", ".", "0", ".", "0", ".", "5", " ", "o", "l", "d", "\n">>
L_ns == <<"n", "a", "m", "e", "s", "e", "r", "v", "e", "r", " ",
          "8", ".", "8", ".", "8", ".", "8", "\n">>
L_search == <<"s", "e", "a", "r", "c", "h", " ", "l", "a", "n", "\n">>
L_opt == <<"o", "p", "t", "i", "o", "n", "s", " ", "e", "d", "n", "s", "0", "\n">>

InitHosts == <<L_localhost, L_alias, L_comment, L_netip>>
InitResolv == <<L_ns, L_search, L_opt>>
\* what an earlier run that ended in a fatal exit left behind
StaleResolvBak == <<L_opt>>
StaleHostsBak == <<L_localhost>>

InitFiles(stale) ==
  [p \in Paths |->
     CASE p = RESOLVCNF_HEAD -> InitResolv
       [] p = HOSTS_FILE -> InitHosts
       [] p = RESOLVCNF_BAK -> IF stale THEN StaleResolvBak ELSE Absent
       [] p = HOSTS_BAK -> IF stale THEN StaleHostsBak ELSE Absent
       [] p = COMMAND_LOG -> Absent
       [] p = ETC_HOSTNAME -> <<HOSTNAME \o <<"\n">>>>
       [] p = KEYTAB -> Absent
       [] OTHER -> << <<"old">> >>]

(***************************************************************************)
(* State                                                                   *)
(***************************************************************************)
VARIABLES
  pc,               \* position in main
  opts,             \* the values of --pass, --realm, --domain, --join_ns, --hostname
  TURNKEY_INIT,     \* _TURNKEY_INIT is set
  interactive, create,
  realm, domain, admin_password, join_nameserver, hostname,
  DEFAULT_REALM, DEFAULT_DOMAIN, DEFAULT_NS,
  commands, step, krb_pass, finalize, samba_run, nameserver, ip,
  disk,             \* the file system and the attempt's file operations
  services,         \* "asfound", "stopped", "started" or "active"
  dialogs,          \* the kinds of dialog shown so far
  shown_error,      \* the text of the last error dialog
  summary,          \* where the final summary went: "", "dialog" or "stdout"
  stderr_msg,       \* what fatal printed
  exitCode,         \* -1 while running
  exception,        \* the uncaught exception that ended the process, or ""
  attempt,          \* number of the current pass of the while loop
  ran,              \* the command steps run in the current attempt
  snap,             \* the files as they were when the attempt began
  failed_with       \* realm, domain and nameserver of the last failed attempt

params == <<realm, domain, admin_password, join_nameserver, hostname>>
defaults == <<DEFAULT_REALM, DEFAULT_DOMAIN, DEFAULT_NS>>
modev == <<interactive, create>>
execv == <<commands, step, krb_pass, finalize, samba_run, nameserver, ip>>
envv == <<opts, TURNKEY_INIT>>
uiv == <<dialogs, shown_error, summary>>
endv == <<stderr_msg, exitCode, exception>>
ghostv == <<attempt, ran, snap, failed_with>>
vars == <<pc, params, defaults, modev, execv, envv, disk, services, uiv, endv,
          ghostv>>

Flag(S) == {<<>>} \cup S

\* what ping_client can return: the loopback address answers, any other
\* address may or may not
PingAnswers(address) == IF address = LOCALHOST_NS THEN {TRUE} ELSE BOOLEAN

Init ==
  /\ pc = "start"
  /\ opts \in [pass : Flag(PassInputs), realm : Flag(RealmInputs),
               domain : Flag(DomainInputs), join_ns : Flag(IpInputs),
               hostname : Flag(HostInputs)]
  /\ TURNKEY_INIT \in BOOLEAN
  /\ interactive = FALSE
  /\ create = FALSE
  /\ realm = <<>> /\ domain = <<>> /\ admin_password = <<>>
  /\ join_nameserver = <<>> /\ hostname = <<>>
  /\ DEFAULT_REALM = INIT_DEFAULT_REALM
  /\ DEFAULT_DOMAIN = INIT_DEFAULT_DOMAIN
  /\ DEFAULT_NS = <<>>
  /\ commands = <<>> /\ step = 1 /\ krb_pass = <<>> /\ finalize = FALSE
  /\ samba_run = [code |-> 0, out |-> <<>>]
  /\ nameserver = <<>> /\ ip = <<>>
  /\ \E stale \in BOOLEAN : disk = [files |-> InitFiles(stale), ops |-> <<>>]
  /\ services = "asfound"
  /\ dialogs = {}
  /\ shown_error = <<>>
  /\ summary = ""
  /\ stderr_msg = ""
  /\ exitCode = -1
  /\ exception = ""
  /\ attempt = 0
  /\ ran = <<>>
  /\ snap = disk.files
  /\ failed_with = [realm |-> <<>>, domain |-> <<>>, ns |-> <<>>]

\* fatal(s): print to stderr and sys.exit(1)
fatal(s) == pc' = "exit" /\ stderr_msg' = s /\ exitCode' = 1 /\ exception' = ""
\* an exception nobody catches ends the process with a traceback
Raise(e) == pc' = "exit" /\ stderr_msg' = "Traceback" /\ exitCode' = 1
            /\ exception' = e
\* sys.exit(0)
Exit0 == pc' = "exit" /\ stderr_msg' = stderr_msg /\ exitCode' = 0
         /\ exception' = ""
Goto(l) == pc' = l /\ UNCHANGED endv
Show(kinds) == dialogs' = dialogs \cup kinds

\* the condition that forces an interactive session
ForcedInteractive ==
  \/ ~(Truthy(opts.realm) /\ Truthy(opts.domain) /\ Truthy(opts.pass))
  \/ (Truthy(opts.join_ns) /\ ~Truthy(valid_ip(opts.join_ns)))
  \/ (Truthy(opts.join_ns) /\ ~Truthy(opts.hostname))
  \/ TURNKEY_INIT

\* option parsing and the choice of the session's kind
ParseArgs ==
  /\ pc = "start"
  /\ realm' = opts.realm /\ domain' = opts.domain
  /\ admin_password' = opts.pass
  /\ join_nameserver' = opts.join_ns /\ hostname' = opts.hostname
  /\ DEFAULT_NS' = opts.join_ns
  /\ IF ForcedInteractive
     THEN /\ interactive' = TRUE
          /\ create' = (IF Truthy(opts.join_ns) THEN TRUE ELSE create)
          /\ Goto("loop")
     ELSE IF Truthy(opts.join_ns) /\ Truthy(opts.hostname)
     THEN UNCHANGED modev /\ Goto("pre_resolv")
     ELSE interactive' = FALSE /\ create' = TRUE /\ Goto("loop")
  /\ UNCHANGED <<DEFAULT_REALM, DEFAULT_DOMAIN, execv, envv, disk, services, uiv,
                 ghostv>>

\* non-interactive join: the nameserver is put in place before the loop
PreUpdateResolv ==
  /\ pc = "pre_resolv"
  /\ join_nameserver' = valid_ip(join_nameserver)
  /\ \E ping \in PingAnswers(join_nameserver') :
       IF ~ping
       THEN fatal("No client is responding to ping") /\ UNCHANGED disk
       ELSE /\ disk' = update_resolvconf(disk, Lower(realm), join_nameserver')
            /\ Goto("pre_hostname")
  /\ UNCHANGED <<realm, domain, admin_password, hostname, defaults, modev, execv,
                 envv, services, uiv, ghostv>>

\* non-interactive join: the supplied hostname is validated
PreValidateHostname ==
  /\ pc = "pre_hostname"
  /\ \E dns \in BOOLEAN :
       LET h == validate_hostname(hostname, DEFAULT_HOSTNAME, dns)
       IN IF ~interactive /\ IsErr(h)
          THEN fatal(h[2]) /\ UNCHANGED <<params, modev, disk>>
          ELSE IF Truthy(join_nameserver) /\ FirstTruthy(h)
          THEN /\ hostname' = h /\ create' = FALSE
               /\ UNCHANGED <<realm, domain, admin_password, join_nameserver,
                              interactive, disk>>
               /\ Goto("loop")
          ELSE IF Truthy(join_nameserver)
          THEN /\ disk' = restore_resolvconf(disk)
               /\ interactive' = TRUE /\ hostname' = <<>>
               /\ UNCHANGED <<realm, domain, admin_password, join_nameserver,
                              create>>
               /\ Goto("loop")
          ELSE IF FirstTruthy(h)
          THEN /\ interactive' = TRUE /\ hostname' = h
               /\ UNCHANGED <<realm, domain, admin_password, join_nameserver,
                              create, disk>>
               /\ Goto("loop")
          ELSE /\ disk' = restore_resolvconf(disk)
               /\ interactive' = TRUE /\ hostname' = <<>>
               /\ join_nameserver' = <<>>
               /\ UNCHANGED <<realm, domain, admin_password, create>>
               /\ Goto("loop")
  /\ UNCHANGED <<defaults, execv, envv, services, uiv, ghostv>>

\* top of the while loop: a new attempt begins; under turnkey-init the
\* operator is asked whether to reconfigure
Confirm ==
  /\ pc = "loop"
  /\ attempt' = attempt + 1
  /\ IF attempt >= 1
     THEN /\ ran' = <<>> /\ snap' = disk.files
          /\ disk' = [disk EXCEPT !.ops = <<>>]
     ELSE UNCHANGED <<ran, snap, disk>>
  /\ IF TURNKEY_INIT
     THEN /\ Show({"yesno_reconfigure"})
          /\ \E do_it \in BOOLEAN : IF do_it THEN Goto("mode") ELSE Exit0
     ELSE UNCHANGED dialogs /\ Goto("mode")
  /\ UNCHANGED <<params, defaults, modev, execv, envv, services, shown_error,
                 summary, failed_with>>

\* create or join: asked unless a join nameserver is at hand
ChooseMode ==
  /\ pc = "mode"
  /\ IF interactive /\ ~Truthy(join_nameserver)
     THEN Show({"yesno_create"}) /\ \E c \in BOOLEAN : create' = c
     ELSE UNCHANGED <<dialogs, create>>
  /\ Goto("realm")
  /\ UNCHANGED <<params, defaults, interactive, execv, envv, disk, services,
                 shown_error, summary, ghostv>>

\* a realm given on the command line is validated once; a missing one is asked
ResolveRealm ==
  /\ pc = "realm"
  /\ IF ~Truthy(realm)
     THEN Goto("realm_ask") /\ UNCHANGED realm
     ELSE IF ~interactive /\ IsErr(validate_realm(realm))
     THEN fatal(RealmErrors(realm)[1]) /\ UNCHANGED realm
     ELSE realm' = validate_realm(realm) /\ Goto("domain")
  /\ UNCHANGED <<domain, admin_password, join_nameserver, hostname, defaults,
                 modev, execv, envv, disk, services, uiv, ghostv>>

\* one round of the realm prompt
AskRealm ==
  /\ pc = "realm_ask"
  /\ \E input \in RealmInputs :
       /\ realm' = validate_realm(input)
       /\ IF FirstTruthy(realm')
          THEN Show({"input"}) /\ UNCHANGED shown_error /\ Goto("domain")
          ELSE /\ Show({"input", "error"})
               /\ shown_error' = <<realm'[2]>>
               /\ Goto("realm_ask")
  /\ UNCHANGED <<domain, admin_password, join_nameserver, hostname, defaults,
                 modev, execv, envv, disk, services, summary, ghostv>>

ResolveDomain ==
  /\ pc = "domain"
  /\ IF ~Truthy(domain)
     THEN Goto("domain_ask") /\ UNCHANGED domain
     ELSE IF ~interactive /\ IsErr(validate_netbios(domain))
     THEN fatal(validate_netbios(domain)[2]) /\ UNCHANGED domain
     ELSE domain' = validate_netbios(domain) /\ Goto("password")
  /\ UNCHANGED <<realm, admin_password, join_nameserver, hostname, defaults,
                 modev, execv, envv, disk, services, uiv, ghostv>>

AskDomain ==
  /\ pc = "domain_ask"
  /\ \E input \in DomainInputs :
       /\ domain' = validate_netbios(input)
       /\ IF FirstTruthy(domain')
          THEN Show({"input"}) /\ UNCHANGED shown_error /\ Goto("password")
          ELSE /\ Show({"input", "error"})
               /\ shown_error' = <<domain'[2]>>
               /\ Goto("domain_ask")
  /\ UNCHANGED <<realm, admin_password, join_nameserver, hostname, defaults,
                 modev, execv, envv, disk, services, summary, ghostv>>

\* a missing password is asked with get_password(..., blacklist=['(', ')']);
\* Dialog.get_password takes no blacklist argument, so the call raises
ResolvePassword ==
  /\ pc = "password"
  /\ IF ~Truthy(admin_password)
     THEN Raise("TypeError")
     ELSE Goto("nameserver")
  /\ UNCHANGED <<params, defaults, modev, execv, envv, disk, services, uiv,
                 ghostv>>

\* only an interactive join asks for the nameserver and the hostname
ResolveNameserver ==
  /\ pc = "nameserver"
  /\ IF interactive /\ ~create
     THEN IF ~Truthy(join_nameserver) THEN Goto("ns_ask")
          ELSE Goto("join_resolv")
     ELSE Goto("clear")
  /\ UNCHANGED <<params, defaults, modev, execv, envv, disk, services, uiv,
                 ghostv>>

AskNameserver ==
  /\ pc = "ns_ask"
  /\ \E input \in IpInputs :
       IF ~Truthy(valid_ip(input))
       THEN /\ Show({"input", "error"})
            /\ shown_error' = <<"IP is not valid">>
            /\ join_nameserver' = <<>>
            /\ Goto("ns_ask")
       ELSE /\ Show({"input"}) /\ UNCHANGED shown_error
            /\ join_nameserver' = input
            /\ Goto("join_resolv")
  /\ UNCHANGED <<realm, domain, admin_password, hostname, defaults, modev,
                 execv, envv, disk, services, summary, ghostv>>

\* the nameserver is put in place so that the new hostname can be looked up;
\* in an interactive session an unanswered ping only skips the update
JoinUpdateResolv ==
  /\ pc = "join_resolv"
  /\ IF IsErr(realm)
     THEN Raise("AttributeError") /\ UNCHANGED disk
     ELSE \E ping \in PingAnswers(join_nameserver) :
            IF ~ping
            THEN IF interactive THEN Goto("hostname") /\ UNCHANGED disk
                 ELSE fatal("No client is responding to ping") /\ UNCHANGED disk
            ELSE /\ disk' = update_resolvconf(disk, Lower(realm), join_nameserver)
                 /\ Goto("hostname")
  /\ UNCHANGED <<params, defaults, modev, execv, envv, services, uiv, ghostv>>

ResolveHostname ==
  /\ pc = "hostname"
  /\ IF ~Truthy(hostname) THEN Goto("host_ask") ELSE Goto("clear")
  /\ UNCHANGED <<params, defaults, modev, execv, envv, disk, services, uiv,
                 ghostv>>

\* one round of the hostname prompt; a valid hostname is set at once
AskHostname ==
  /\ pc = "host_ask"
  /\ \E input \in HostInputs, dns \in BOOLEAN :
       /\ hostname' = validate_hostname(input, DEFAULT_HOSTNAME, dns)
       /\ IF ~FirstTruthy(hostname')
          THEN /\ Show({"input", "error"})
               /\ shown_error' = <<hostname'[2]>>
               /\ UNCHANGED disk
               /\ Goto("host_ask")
          ELSE /\ Show({"input"}) /\ UNCHANGED shown_error
               /\ disk' = set_hostname(disk, hostname')
               /\ Goto("clear")
  /\ UNCHANGED <<realm, domain, admin_password, join_nameserver, defaults,
                 modev, execv, envv, services, summary, ghostv>>

\* the Samba services are stopped and the old configuration is removed
StopAndClear ==
  /\ pc = "clear"
  /\ services' = "stopped"
  /\ disk' = ClearConfig(disk)
  /\ Goto("build")
  /\ UNCHANGED <<params, defaults, modev, execv, envv, uiv, ghostv>>

\* the command list of the attempt; a join writes its Kerberos configuration
BuildCommands ==
  /\ pc = "build"
  /\ krb_pass' = (IF create THEN <<>> ELSE admin_password)
  /\ finalize' = FALSE
  /\ step' = 1
  /\ IF create
     THEN /\ ip' = NET_IP
          /\ commands' = CreateCommands(realm, domain, admin_password, NET_IP)
          /\ nameserver' = LOCALHOST_NS
          /\ hostname' = HOSTNAME
          /\ UNCHANGED disk
          /\ Goto("resolv")
     ELSE /\ disk' = WriteFile(disk, KRB5_CONF, JoinKrb5Conf(realm))
          /\ ip' = <<>>
          /\ nameserver' = join_nameserver
          /\ UNCHANGED hostname
          /\ IF IsErr(realm)
             THEN Raise("AttributeError") /\ UNCHANGED commands
             ELSE commands' = JoinCommands(realm) /\ Goto("resolv")
  /\ UNCHANGED <<realm, domain, admin_password, join_nameserver, defaults,
                 modev, samba_run, envv, services, uiv, ghostv>>

\* the resolver file is pointed at the attempt's nameserver
UpdateResolv ==
  /\ pc = "resolv"
  /\ IF IsErr(realm)
     THEN Raise("AttributeError") /\ UNCHANGED disk
     ELSE \E ping \in PingAnswers(nameserver) :
            IF ~ping
            THEN IF interactive THEN Goto("hosts") /\ UNCHANGED disk
                 ELSE fatal("No client is responding to ping") /\ UNCHANGED disk
            ELSE /\ disk' = update_resolvconf(disk, Lower(realm), nameserver)
                 /\ Goto("hosts")
  /\ UNCHANGED <<params, defaults, modev, execv, envv, services, uiv, ghostv>>

\* the hosts file: the loopback alias, and for a create the real address
UpdateHosts ==
  /\ pc = "hosts"
  /\ LET d1 == update_hosts(disk, LOCALDOMAIN, hostname, realm)
     IN disk' = IF Truthy(ip) THEN update_hosts(d1, ip, hostname, realm) ELSE d1
  /\ Goto("run")
  /\ UNCHANGED <<params, defaults, modev, execv, envv, services, uiv, ghostv>>

\* what a command step can return; the output of a step that exits 0 is
\* never read, so one value stands for it
StepResults ==
  {[code |-> 0, out |-> <<>>]} \cup {[code |-> 1, out |-> o] : o \in Outputs}

\* what the toolchain leaves on disk when a step succeeds: exportkeytab
\* writes the keytab
ToolEffect(d, argv) ==
  IF argv = export_krb
  THEN [d EXCEPT !.files[KEYTAB] = << <<"keytab">>, <<"default owner and mode">> >>]
  ELSE d

\* one pass of the for loop over the commands: run the step, and go on to
\* the next step only if it exited 0
RunStep ==
  /\ pc = "run"
  /\ step <= Len(commands)
  /\ \E res \in StepResults :
       /\ ran' = Append(ran, [argv |-> commands[step],
                              stdin |-> (IF Truthy(krb_pass) THEN krb_pass ELSE <<>>),
                              code |-> res.code, out |-> res.out])
       /\ samba_run' = res
       /\ krb_pass' = <<>>
       /\ IF res.code # 0
          THEN Goto("log") /\ UNCHANGED <<step, finalize, disk>>
          ELSE /\ finalize' = TRUE
               /\ step' = step + 1
               /\ disk' = ToolEffect(disk, commands[step])
               /\ Goto(IF step = Len(commands) THEN "after_loop" ELSE "run")
  /\ UNCHANGED <<params, defaults, modev, commands, nameserver, ip, envv,
                 services, uiv, attempt, snap, failed_with>>

\* the failure log written only on the interactive path
LogFailureInteractiveOnly ==
  /\ pc = "log"
  /\ disk' = IF interactive
             THEN [files |-> [disk.files EXCEPT ![COMMAND_LOG] =
                     (IF @ = Absent THEN <<>> ELSE @)
                     \o <<LogText(commands[step], samba_run.out)>>],
                   ops |-> Append(disk.ops, <<"append", COMMAND_LOG>>)]
             ELSE disk
  /\ failed_with' = [realm |-> realm, domain |-> domain, ns |-> join_nameserver]
  /\ Goto(IF interactive THEN "report" ELSE "fatal_cmd")
  /\ UNCHANGED <<params, defaults, modev, execv, envv, services, uiv, attempt,
                 ran, snap>>

\* the failed command and its output are appended to the failure log
LogFailure ==
  /\ pc = "log"
  /\ disk' = [files |-> [disk.files EXCEPT ![COMMAND_LOG] =
                 (IF @ = Absent THEN <<>> ELSE @)
                 \o <<LogText(commands[step], samba_run.out)>>],
              ops |-> Append(disk.ops, <<"append", COMMAND_LOG>>)]
  /\ failed_with' = [realm |-> realm, domain |-> domain, ns |-> join_nameserver]
  /\ Goto(IF interactive THEN "report" ELSE "fatal_cmd")
  /\ UNCHANGED <<params, defaults, modev, execv, envv, services, uiv, attempt,
                 ran, snap>>

\* the report without the break: the for loop goes on with the next command
ReportFailureNoBreak ==
  /\ pc = "report"
  /\ Show({"error"})
  /\ shown_error' = Condensed(samba_run.out)
  /\ finalize' = FALSE
  /\ DEFAULT_REALM' = realm /\ realm' = <<>>
  /\ DEFAULT_DOMAIN' = domain /\ domain' = <<>>
  /\ admin_password' = <<>>
  /\ DEFAULT_NS' = join_nameserver /\ join_nameserver' = <<>>
  /\ step' = step + 1
  /\ Goto(IF step < Len(commands) THEN "run" ELSE "after_loop")
  /\ UNCHANGED <<hostname, modev, commands, krb_pass, samba_run,
                 nameserver, ip, envv, disk, services, summary, ghostv>>

\* the report that leaves finalize as the last successful step set it
ReportFailureKeepsFinalize ==
  /\ pc = "report"
  /\ Show({"error"})
  /\ shown_error' = Condensed(samba_run.out)
  /\ DEFAULT_REALM' = realm /\ realm' = <<>>
  /\ DEFAULT_DOMAIN' = domain /\ domain' = <<>>
  /\ admin_password' = <<>>
  /\ DEFAULT_NS' = join_nameserver /\ join_nameserver' = <<>>
  /\ Goto("after_loop")
  /\ UNCHANGED <<hostname, modev, commands, step, krb_pass, finalize, samba_run,
                 nameserver, ip, envv, disk, services, summary, ghostv>>

\* interactive: the condensed error is shown, the fields are reset and the
\* for loop is left
ReportFailure ==
  /\ pc = "report"
  /\ Show({"error"})
  /\ shown_error' = Condensed(samba_run.out)
  /\ finalize' = FALSE
  /\ DEFAULT_REALM' = realm /\ realm' = <<>>
  /\ DEFAULT_DOMAIN' = domain /\ domain' = <<>>
  /\ admin_password' = <<>>
  /\ DEFAULT_NS' = join_nameserver /\ join_nameserver' = <<>>
  /\ Goto("after_loop")
  /\ UNCHANGED <<hostname, modev, commands, step, krb_pass, samba_run,
                 nameserver, ip, envv, disk, services, summary, ghostv>>

\* non-interactive: a failed command is fatal
FatalCommand ==
  /\ pc = "fatal_cmd"
  /\ fatal("Errors in processing domain-controller inithook data")
  /\ UNCHANGED <<params, defaults, modev, execv, envv, disk, services, uiv,
                 ghostv>>

\* after the for loop: finalize, or restore the resolver file
AfterLoop ==
  /\ pc = "after_loop"
  /\ IF finalize
     THEN /\ disk' = [disk EXCEPT !.files[KEYTAB] = << <<"keytab">>, <<"root 0600">> >>,
                                  !.files[KRB5_CONF] = << <<"generated">> >>]
          /\ Goto("fin_start")
     ELSE IF disk.files[RESOLVCNF_BAK] = Absent
     THEN Raise("FileNotFoundError") /\ UNCHANGED disk
     ELSE disk' = restore_resolvconf(disk) /\ Goto("restore_hosts")
  /\ UNCHANGED <<params, defaults, modev, execv, envv, services, uiv, ghostv>>

\* the hosts file is restored and the loop starts over
RestoreHosts ==
  /\ pc = "restore_hosts"
  /\ IF disk.files[HOSTS_BAK] = Absent
     THEN Raise("FileNotFoundError") /\ UNCHANGED disk
     ELSE disk' = restore_hosts(disk) /\ Goto("loop")
  /\ UNCHANGED <<params, defaults, modev, execv, envv, services, uiv, ghostv>>

StartService ==
  /\ pc = "fin_start"
  /\ services' = "started"
  /\ Goto("fin_wait")
  /\ UNCHANGED <<params, defaults, modev, execv, envv, disk, uiv, ghostv>>

\* the poll that gives up waiting and goes on without the service active
WaitActiveGivesUp ==
  /\ pc = "fin_wait"
  /\ \E active \in BOOLEAN :
       IF active THEN services' = "active" /\ Goto("fin_kinit")
       ELSE UNCHANGED services /\ Goto("fin_kinit")
  /\ UNCHANGED <<params, defaults, modev, execv, envv, disk, uiv, ghostv>>

\* one poll of systemctl is-active; there is no timeout
WaitActive ==
  /\ pc = "fin_wait"
  /\ \E active \in BOOLEAN :
       IF active THEN services' = "active" /\ Goto("fin_kinit")
       ELSE UNCHANGED services /\ Goto("fin_wait")
  /\ UNCHANGED <<params, defaults, modev, execv, envv, disk, uiv, ghostv>>

\* kinit through check_output: a non-zero exit raises
Kinit ==
  /\ pc = "fin_kinit"
  /\ \E ok \in BOOLEAN :
       IF ok THEN Goto("fin_msg") ELSE Raise("CalledProcessError")
  /\ UNCHANGED <<params, defaults, modev, execv, envv, disk, services, uiv,
                 ghostv>>

\* the summary shown in a dialog whatever the kind of session
SummaryInDialog ==
  /\ pc = "fin_msg"
  /\ Show({"infobox"}) /\ summary' = "dialog"
  /\ Goto("cleanup")
  /\ UNCHANGED <<params, defaults, modev, execv, envv, disk, services,
                 shown_error, ghostv>>

\* the summary goes to a dialog or to standard output
Summary ==
  /\ pc = "fin_msg"
  /\ IF interactive
     THEN Show({"infobox"}) /\ summary' = "dialog"
     ELSE UNCHANGED dialogs /\ summary' = "stdout"
  /\ Goto("cleanup")
  /\ UNCHANGED <<params, defaults, modev, execv, envv, disk, services,
                 shown_error, ghostv>>

\* the backups are deleted and the loop is left
Cleanup ==
  /\ pc = "cleanup"
  /\ disk' = cleanup(disk)
  /\ Exit0
  /\ UNCHANGED <<params, defaults, modev, execv, envv, services, uiv, ghostv>>

\* a dialog that waits for the operator is about to be shown
DialogPending ==
  \/ pc = "loop" /\ TURNKEY_INIT
  \/ pc = "mode" /\ interactive /\ ~Truthy(join_nameserver)
  \/ pc \in {"realm_ask", "domain_ask", "ns_ask", "host_ask", "report"}

\* ESC in a dialog, confirmed: Dialog._handle_exitcode ends the process
EscQuit ==
  /\ DialogPending
  /\ Exit0
  /\ UNCHANGED <<params, defaults, modev, execv, envv, disk, services, uiv,
                 ghostv>>

Next ==
  \/ ParseArgs \/ PreUpdateResolv \/ PreValidateHostname
  \/ Confirm \/ ChooseMode
  \/ ResolveRealm \/ AskRealm \/ ResolveDomain \/ AskDomain
  \/ ResolvePassword
  \/ ResolveNameserver \/ AskNameserver \/ JoinUpdateResolv
  \/ ResolveHostname \/ AskHostname
  \/ StopAndClear \/ BuildCommands \/ UpdateResolv \/ UpdateHosts
  \/ RunStep \/ LogFailure \/ ReportFailure \/ FatalCommand
  \/ AfterLoop \/ RestoreHosts
  \/ StartService \/ WaitActive \/ Kinit \/ Summary \/ Cleanup
  \/ EscQuit

Spec == Init /\ [][Next]_vars

(***************************************************************************)
(* The file operations on their own: update_hosts, update_resolvconf and   *)
(* the two restores applied to any content of the file concerned, with the *)
(* arguments main can pass.  snap holds the files as they were at first.   *)
(***************************************************************************)
MaxLines == 3
L_nas == <<"1", "0", ".", "0", ".", "0", ".", "5", "0", " ", "n", "a", "s", "\n">>
L_dom == <<"d", "o", "m", "a", "i", "n", " ", "l", "a", "n", "\n">>
HostsLines == {L_localhost, L_alias, L_comment, L_netip, L_nas}
ResolvLines == {L_ns, L_search, L_opt, L_dom}
SeqsUpTo(S, n) == UNION {[1..k -> S] : k \in 0..n}

FileInit ==
  /\ pc = "file_start"
  /\ opts = [pass |-> <<>>, realm |-> <<>>, domain |-> <<>>, join_ns |-> <<>>,
             hostname |-> <<>>]
  /\ TURNKEY_INIT = FALSE
  /\ interactive \in BOOLEAN
  /\ create = FALSE
  /\ realm = validate_realm(RealmGood)
  /\ domain = <<>> /\ admin_password = <<>> /\ join_nameserver = <<>>
  /\ hostname \in {HOSTNAME, HostGood}
  /\ DEFAULT_REALM = INIT_DEFAULT_REALM
  /\ DEFAULT_DOMAIN = INIT_DEFAULT_DOMAIN
  /\ DEFAULT_NS = <<>>
  /\ commands = <<>> /\ step = 1 /\ krb_pass = <<>> /\ finalize = FALSE
  /\ samba_run = [code |-> 0, out |-> <<>>]
  /\ nameserver \in {LOCALHOST_NS, IpGood}
  /\ ip \in {LOCALDOMAIN, NET_IP}
  /\ \E stale \in BOOLEAN :
       \/ \E hosts \in SeqsUpTo(HostsLines, MaxLines) :
            disk = [files |-> [InitFiles(stale) EXCEPT ![HOSTS_FILE] = hosts],
                    ops |-> <<>>]
       \/ \E resolv \in SeqsUpTo(ResolvLines, MaxLines) :
            disk = [files |-> [InitFiles(stale) EXCEPT ![RESOLVCNF_HEAD] = resolv],
                    ops |-> <<>>]
  /\ services = "asfound"
  /\ dialogs = {}
  /\ shown_error = <<>>
  /\ summary = ""
  /\ stderr_msg = ""
  /\ exitCode = -1
  /\ exception = ""
  /\ attempt = 1
  /\ ran = <<>>
  /\ snap = disk.files
  /\ failed_with = [realm |-> <<>>, domain |-> <<>>, ns |-> <<>>]

\* update_hosts(ip, hostname, realm), a first and a second time
ApplyUpdateHosts ==
  /\ pc \in {"file_start", "hosts_once"}
  /\ disk' = update_hosts(disk, ip, hostname, realm)
  /\ Goto(IF pc = "file_start" THEN "hosts_once" ELSE "hosts_twice")
  /\ UNCHANGED <<params, defaults, modev, execv, envv, services, uiv, ghostv>>

\* restore_hosts() after one update
ApplyRestoreHosts ==
  /\ pc = "hosts_once"
  /\ disk' = restore_hosts(disk)
  /\ Goto("hosts_restored")
  /\ UNCHANGED <<params, defaults, modev, execv, envv, services, uiv, ghostv>>

\* update_resolvconf(realm.lower(), nameserver, interactive): the update, or
\* the error when the nameserver does not answer the ping
ApplyUpdateResolv ==
  /\ pc = "file_start"
  /\ \E ping \in PingAnswers(nameserver) :
       IF ping
       THEN /\ disk' = update_resolvconf(disk, Lower(realm), nameserver)
            /\ Goto("resolv_once")
       ELSE /\ UNCHANGED disk
            /\ IF interactive THEN Goto("resolv_refused")
               ELSE fatal("No client is responding to ping")
  /\ UNCHANGED <<params, defaults, modev, execv, envv, services, uiv, ghostv>>

\* restore_resolvconf() after one update
ApplyRestoreResolv ==
  /\ pc = "resolv_once"
  /\ disk' = restore_resolvconf(disk)
  /\ Goto("resolv_restored")
  /\ UNCHANGED <<params, defaults, modev, execv, envv, services, uiv, ghostv>>

FileNext ==
  \/ ApplyUpdateHosts \/ ApplyRestoreHosts
  \/ ApplyUpdateResolv \/ ApplyRestoreResolv

FileSpec == FileInit /\ [][FileNext]_vars

(***************************************************************************)
(* Properties                                                              *)
(***************************************************************************)
Last(s) == s[Len(s)]
FailureLog == IF disk.files[COMMAND_LOG] = Absent THEN <<>> ELSE disk.files[COMMAND_LOG]
\* the last step run in the current attempt exited non-zero
LastStepFailed == ran # <<>> /\ Last(ran).code # 0

\* C1: in every attempt the steps run in list order, no step is run after a
\* step that exited non-zero, and the failure logged and reported is that of
\* the failing step
C1_StopsAtFirstFailure ==
  /\ Len(ran) <= Len(commands)
  /\ \A i \in DOMAIN ran :
       /\ ran[i].argv = commands[i]
       /\ ran[i].code # 0 => i = Len(ran)
  /\ pc \in {"report", "fatal_cmd"} =>
       /\ LastStepFailed
       /\ Last(FailureLog) = LogText(Last(ran).argv, Last(ran).out)
  /\ (pc = "restore_hosts" /\ LastStepFailed) =>
       shown_error = Condensed(Last(ran).out)
\* [A ok, B fails, C]: two steps were run, the second failed, and the
\* rollback is under way
C1_Witness ==
  pc = "restore_hosts" /\ Len(ran) = 2 /\ ran[1].code = 0 /\ ran[2].code # 0

\* the name of a command step, read off its argv
StepName(argv) == IF argv[1] = <<"kinit">> THEN "kinit" ELSE argv[3][1]
ExpectedSteps(c) ==
  IF c THEN <<"provision", "setexpiry", "exportkeytab">>
  ELSE <<"kinit", "join", "exportkeytab">>

\* C2: a create attempt runs provision, setexpiry, exportkeytab and a join
\* attempt kinit, join, exportkeytab, in that order; the administrator
\* password is on stdin of the first join step and of no other step
C2_FixedSequences ==
  /\ Len(ran) <= 3
  /\ \A i \in DOMAIN ran :
       /\ StepName(ran[i].argv) = ExpectedSteps(create)[i]
       /\ ran[i].stdin # <<>> <=> (~create /\ i = 1)
       /\ (ran[i].stdin # <<>> /\ pc \in {"run", "log", "report", "fatal_cmd"})
            => ran[i].stdin = admin_password
C2_Witness ==
  pc = "fin_start" /\ ~create /\ Len(ran) = 3 /\ ran[1].stdin = Pw

\* C3 (as claimed): after a command step of an interactive session exits
\* non-zero the session comes back to parameter collection with realm,
\* domain, password and nameserver empty and the failed attempt's values as
\* defaults; it never ends in an exception instead
C3_ReturnsToCollection ==
  /\ (pc = "mode" /\ attempt >= 2) =>
       /\ realm = <<>> /\ domain = <<>> /\ admin_password = <<>>
       /\ join_nameserver = <<>>
       /\ DEFAULT_REALM = failed_with.realm
       /\ DEFAULT_DOMAIN = failed_with.domain
       /\ DEFAULT_NS = failed_with.ns
  /\ ~(interactive /\ LastStepFailed /\ pc = "exit" /\ exception # "")

\* C4 (as claimed): once the rollback of a failed attempt has run, the
\* resolver file and the hosts file hold what they held when the attempt began
C4_RollbackRestores ==
  (pc = "loop" /\ attempt >= 1) =>
    /\ disk.files[RESOLVCNF_HEAD] = snap[RESOLVCNF_HEAD]
    /\ disk.files[HOSTS_FILE] = snap[HOSTS_FILE]

\* is the text t a contiguous part of the text s
Contains(s, t) ==
  \E i \in 1..(Len(s) - Len(t) + 1) : SubSeq(s, i, i + Len(t) - 1) = t

\* C5 (as claimed): the text appended to the failure log does not contain the
\* administrator password
C5_NoPasswordInLog ==
  pc \in {"report", "fatal_cmd"} => ~Contains(Last(FailureLog), admin_password)

\* every write or removal among ops of a path in S comes after a backup of
\* that path in the same attempt
BackedUpBeforeMutation(S) ==
  \A i \in DOMAIN disk.ops :
    (disk.ops[i][1] \in {"write", "remove"} /\ disk.ops[i][2] \in S) =>
      \E j \in 1..(i - 1) : disk.ops[j] = <<"backup", disk.ops[i][2]>>

\* C6 (as claimed): every path the attempt writes or removes was backed up
\* in the same attempt before the first write to it
C6_EveryPathBackedUp == BackedUpBeforeMutation(Paths)
\* C6 (amended): the resolver file and the hosts file are backed up in the
\* same attempt before the attempt first writes them
C6_ResolverAndHostsBackedUp == BackedUpBeforeMutation({RESOLVCNF_HEAD, HOSTS_FILE})
\* both files have been rewritten in the attempt
C6_Witness ==
  /\ \E i \in DOMAIN disk.ops : disk.ops[i] = <<"write", HOSTS_FILE>>
  /\ \E i \in DOMAIN disk.ops : disk.ops[i] = <<"write", RESOLVCNF_HEAD>>

\* C7 (as claimed): a restore is performed only with a .bak that exists and
\* was made by an update of the current attempt
C7_RestoreFromOwnBackup ==
  /\ \A i \in DOMAIN disk.ops :
       disk.ops[i][1] = "restore" =>
         \E j \in 1..(i - 1) : disk.ops[j] = <<"backup", disk.ops[i][2]>>
  /\ exception # "FileNotFoundError"

C8_State ==
  /\ pc \in {"report", "fatal_cmd"} =>
       /\ LastStepFailed
       /\ FailureLog # <<>>
       /\ Last(FailureLog) = LogText(Last(ran).argv, Last(ran).out)
       /\ Last(disk.ops) = <<"append", COMMAND_LOG>>
  /\ ~interactive => attempt <= 1
C8_Step ==
  /\ (pc = "run" /\ samba_run'.code # 0) => pc' = "log"
  /\ pc = "log" =>
       /\ pc' \in {"report", "fatal_cmd"}
       /\ pc' = "fatal_cmd" <=> ~interactive
       /\ UNCHANGED <<params, defaults, uiv, endv, services>>
  /\ pc = "fatal_cmd" => (pc' = "exit" /\ exitCode' = 1)
\* C8: a non-zero exit is appended to the failure log before anything else is
\* done about it, interactive or not; a non-interactive session then ends
\* with exit code 1 and never starts another attempt
C8_LoggedFirst ==
  /\ [](C8_State)
  /\ [][C8_Step]_vars
C8_Witness ==
  pc = "exit" /\ ~interactive /\ exitCode = 1 /\ LastStepFailed
  /\ Len(FailureLog) = 1

\* four decimal octets, each 0-255, separated by dots
StrictDottedQuad(address) ==
  LET parts == Split(address, ".")
  IN /\ Len(parts) = 4
     /\ \A i \in 1..4 :
          /\ parts[i] # <<>>
          /\ \A k \in DOMAIN parts[i] : IsDigitChar(parts[i][k])
          /\ NumVal(parts[i], 10) <= 255

\* C9 (as claimed): the session is interactive exactly when realm, domain or
\* password is missing, or a join nameserver is given that is no valid IPv4
\* address, or a join nameserver is given without a hostname, or the
\* environment signal is set; with realm, domain and password given, no
\* nameserver and no signal it is a non-interactive create
C9_InteractiveIff ==
  pc # "start" =>
    /\ interactive <=>
         \/ opts.realm = <<>> \/ opts.domain = <<>> \/ opts.pass = <<>>
         \/ (opts.join_ns # <<>> /\ ~StrictDottedQuad(opts.join_ns))
         \/ (opts.join_ns # <<>> /\ opts.hostname = <<>>)
         \/ TURNKEY_INIT
    /\ (opts.realm # <<>> /\ opts.domain # <<>> /\ opts.pass # <<>>
        /\ opts.join_ns = <<>> /\ ~TURNKEY_INIT) => (~interactive /\ create)

\* this run has stopped a service, changed a file or run a command step
Mutated == services # "asfound" \/ disk.ops # <<>> \/ ran # <<>>

\* C10 (as claimed): with realm, domain and password given and an invalid
\* --join_ns, the session is interactive and nothing is mutated or executed
\* before the nameserver prompt has yielded a valid address
C10_InvalidNsReprompted ==
  (/\ pc # "start"
   /\ opts.realm # <<>> /\ opts.domain # <<>> /\ opts.pass # <<>>
   /\ opts.join_ns # <<>> /\ ~InetAtonOk(opts.join_ns)) =>
    /\ interactive
    /\ (Mutated /\ attempt = 1) => InetAtonOk(join_nameserver)

\* C11 (as claimed): when --join_ns is given, the first attempt is a join
\* attempt: it never runs the provision step, its steps are those of the join
\* list, and when --hostname is missing a hostname has been obtained from the
\* operator before the old configuration is cleared
C11_JoinNsMeansJoin ==
  (opts.join_ns # <<>> /\ attempt = 1) =>
    /\ \A i \in DOMAIN ran : StepName(ran[i].argv) = ExpectedSteps(FALSE)[i]
    /\ (pc = "clear" /\ opts.hostname = <<>>) => Truthy(hostname)

\* the value held for the realm, or for the NetBIOS domain, fails validation
RealmFails(r) == IsErr(r) \/ (r # <<>> /\ IsErr(validate_realm(r)))
DomainFails(dom) == IsErr(dom) \/ (dom # <<>> /\ IsErr(validate_netbios(dom)))

\* C12 (as claimed): no service is stopped, no file changed and no command
\* run while the realm or the domain held is one that fails validation; past
\* the realm and domain stage both are valid; and a non-interactive session
\* given an invalid realm or domain ends with exit code 1
C12_InvalidNeverMutates ==
  /\ Mutated => (~RealmFails(realm) /\ ~DomainFails(domain))
  /\ pc = "password" =>
       /\ Truthy(realm) /\ ~RealmFails(realm)
       /\ Truthy(domain) /\ ~DomainFails(domain)
  /\ (pc = "exit" /\ ~interactive
      /\ (RealmFails(opts.realm) \/ DomainFails(opts.domain))) => exitCode = 1

\* the messages with which validate_hostname rejects a hostname
HostnameErrors ==
  {"hostname is default", "hostname has domain", "hostname characters",
   "hostname registered"}

\* C13 (as claimed): with valid --pass, --realm, --domain and --join_ns and a
\* --hostname that validate_hostname rejects, the process does not end on the
\* hostname error; it goes on as an interactive session
C13_InvalidHostnameAsked ==
  (/\ opts.pass # <<>>
   /\ opts.realm # <<>> /\ ~RealmFails(opts.realm)
   /\ opts.domain # <<>> /\ ~DomainFails(opts.domain)
   /\ opts.join_ns # <<>> /\ StrictDottedQuad(opts.join_ns)
   /\ opts.hostname # <<>> /\ ~TURNKEY_INIT) =>
    /\ stderr_msg \notin HostnameErrors
    /\ (HostnameSyntaxErr(opts.hostname, DEFAULT_HOSTNAME) # ""
        /\ pc \notin {"start", "pre_resolv", "pre_hostname", "exit"}) => interactive

\* the positions of main inside the finalizer
FinPcs == {"fin_start", "fin_wait", "fin_kinit", "fin_msg", "cleanup"}
\* all three command steps of the current attempt were run and exited 0
AllThreeOk == Len(ran) = 3 /\ \A i \in DOMAIN ran : ran[i].code = 0
KeytabSecured == disk.files[KEYTAB] = << <<"keytab">>, <<"root 0600">> >>
BackupDeleted == \E i \in DOMAIN disk.ops : disk.ops[i][1] = "rmbak"

FinFairness ==
  /\ WF_vars(StartService) /\ WF_vars(WaitActive)
  /\ SF_vars(WaitActive /\ services' = "active")
  /\ WF_vars(Kinit) /\ WF_vars(Summary) /\ WF_vars(Cleanup)
LiveSpec == Init /\ [][Next]_vars /\ FinFairness

C15_State ==
  /\ pc \in {"fin_kinit", "fin_msg", "cleanup"} => services = "active"
  /\ (summary # "" \/ BackupDeleted) => services = "active"
  /\ pc = "fin_wait" => exitCode = -1
C15_Step ==
  pc = "fin_wait" =>
    /\ pc' \in {"fin_wait", "fin_kinit"}
    /\ pc' = "fin_kinit" <=> services' = "active"

\* C15 (as claimed): kinit, the summary and the backup deletion come only
\* after the service was seen active; the wait is left only by seeing it
\* active; and if the service becomes active the session ends with exit code 0
C15_EndsWithZero ==
  /\ [](C15_State)
  /\ [][C15_Step]_vars
  /\ (pc = "fin_wait") ~> (pc = "exit" /\ exitCode = 0)
\* C15 (amended): the same, the session ending with exit code 0 or, when the
\* kinit of the finalizer fails, with the uncaught CalledProcessError
C15_EndsAfterActive ==
  /\ [](C15_State)
  /\ [][C15_Step]_vars
  /\ (pc = "fin_wait") ~>
       (pc = "exit" /\ (exitCode = 0 \/ exception = "CalledProcessError"))
\* the service was seen active and the session ended with exit code 0, the
\* summary shown and the backups gone
C15_Witness ==
  pc = "exit" /\ exitCode = 0 /\ services = "active" /\ summary # ""
  /\ disk.files[RESOLVCNF_BAK] = Absent

\* C16 (as claimed): when the process has ended, a file that was backed up in
\* the last attempt has no .bak left beside it: the backup was moved back or
\* deleted
C16_BackupsConsumed ==
  pc = "exit" =>
    \A path \in {RESOLVCNF_HEAD, HOSTS_FILE} :
      (\E i \in DOMAIN disk.ops : disk.ops[i] = <<"backup", path>>)
        => disk.files[BakOf(path)] = Absent

\* C17: one update of the hosts file, or of the resolver file, followed by
\* its restore leaves the file with the content it had before the update,
\* and leaves no .bak
C17_RoundTrip ==
  /\ pc = "hosts_restored" =>
       /\ disk.files[HOSTS_FILE] = snap[HOSTS_FILE]
       /\ disk.files[HOSTS_BAK] = Absent
  /\ pc = "resolv_restored" =>
       /\ disk.files[RESOLVCNF_HEAD] = snap[RESOLVCNF_HEAD]
       /\ disk.files[RESOLVCNF_BAK] = Absent
\* a hosts file that the update rewrote (it has a 127.0.1.1 line), restored
\* over a .bak that an earlier run had left
C17_Witness ==
  /\ pc = "hosts_restored"
  /\ \E i \in DOMAIN snap[HOSTS_FILE] : snap[HOSTS_FILE][i] = L_alias
  /\ snap[HOSTS_BAK] # Absent
  /\ disk.ops = << <<"backup", HOSTS_FILE>>, <<"write", HOSTS_FILE>>,
                   <<"restore", HOSTS_FILE>> >>

FirstField(line) == Split(line, " ")[1]
IsComment(line) == StartsWith(line, <<"#">>)

\* C19 (as claimed): after one update_hosts with an address other than
\* 127.0.1.1, every 127.0.1.1 line reads '127.0.1.1 hostname fqdn', exactly one
\* line is for the address and reads 'address hostname fqdn', and the comment
\* lines and the lines for any other address are those of the old file,
\* unchanged and in order
C19_HostsLines ==
  (pc = "hosts_once" /\ ip # LOCALDOMAIN) =>
    LET old == snap[HOSTS_FILE]
        new == disk.files[HOSTS_FILE]
        fqdn == Lower(Join(<<".">>, <<hostname, realm>>))
        Kept(line) == IsComment(line) \/ FirstField(line) \notin {LOCALDOMAIN, ip}
    IN /\ \A i \in DOMAIN new :
            (~IsComment(new[i]) /\ FirstField(new[i]) = LOCALDOMAIN) =>
              new[i] = Join(<<" ">>, <<LOCALDOMAIN, hostname, fqdn>>) \o <<"\n">>
       /\ \E i \in DOMAIN new :
            /\ new[i] = Join(<<" ">>, <<ip, hostname, fqdn>>) \o <<"\n">>
            /\ \A j \in DOMAIN new :
                 (~IsComment(new[j]) /\ FirstField(new[j]) = ip) => j = i
       /\ SelectSeq(new, Kept) = SelectSeq(old, Kept)

C20_Step ==
  (pc \in {"pre_resolv", "join_resolv", "resolv"} /\ ~IsErr(realm)) =>
    \/ disk'.ops = disk.ops \o << <<"backup", RESOLVCNF_HEAD>>,
                                  <<"write", RESOLVCNF_HEAD>> >>
    \/ /\ disk' = disk
       /\ IF interactive
          THEN /\ "error" \in dialogs'
               /\ shown_error' = <<"No client is responding to ping">>
          ELSE pc' = "exit" /\ exitCode' = 1
\* C20 (as claimed): a call of update_resolvconf either backs the resolver
\* file up and rewrites it, or, the nameserver not answering, leaves the
\* disk as it is; then a non-interactive session ends with exit code 1 and an
\* interactive one shows the operator the failure in an error dialog
C20_UnreachableNameserver == [][C20_Step]_vars

HasParen(text) == \E i \in DOMAIN text : text[i] \in {"(", ")"}

\* C21 (as claimed): no command step is given a password with a parenthesis
\* in it, neither in the --adminpass argument of the provision step nor on
\* the standard input of the kinit step
C21_NoParenthesesInPassword ==
  \A i \in DOMAIN ran :
    /\ ~HasParen(ran[i].stdin)
    /\ StepName(ran[i].argv) = "provision" =>
         ~HasParen(ran[i].argv[9])

Ip_192_168_1_10 == <<"1", "9", "2", ".", "1", "6", "8", ".", "1", ".", "1", "0">>
Ip_192_168_1_256 == <<"1", "9", "2", ".", "1", "6", "8", ".", "1", ".", "2", "5", "6">>
Ip_192_168_1 == <<"1", "9", "2", ".", "1", "6", "8", ".", "1">>

\* C22 (as claimed): valid_ip accepts exactly the strict dotted quads: a
\* nameserver that valid_ip has accepted, from the prompt or from --join_ns,
\* is four decimal octets; 192.168.1.10 is accepted, 192.168.1.256 and
\* 192.168.1 are rejected
C22_StrictIPv4 ==
  /\ pc \in {"join_resolv", "pre_hostname"} => StrictDottedQuad(join_nameserver)
  /\ valid_ip(Ip_192_168_1_10) = Ip_192_168_1_10
  /\ valid_ip(Ip_192_168_1_256) = PyFalse
  /\ valid_ip(Ip_192_168_1) = PyFalse

\* the output cut after its first line that begins with ERROR
UpToFirstError(output) ==
  LET lines == Split(output, "\n")
      errs == {k \in DOMAIN lines : StartsWith(lines[k], S_error)}
  IN IF errs = {} THEN output
     ELSE Join(<<"\n">>, SubSeq(lines, 1, CHOOSE k \in errs : \A j \in errs : k <= j))

\* C23 (as claimed): the condensed message shown for a failed step is the one
\* the output gives when cut after its first ERROR line: no later line adds
\* to it
C23_NothingAfterError ==
  (pc \in {"after_loop", "restore_hosts"} /\ interactive /\ LastStepFailed) =>
    shown_error = Condensed(UpToFirstError(Last(ran).out))

\* the Samba and Kerberos configuration is what the run found
ConfigInPlace ==
  \A p \in {SMB_CONF, KRB5_CONF, SAMBA_DBS} : disk.files[p] = InitFiles(FALSE)[p]
C24_Step ==
  (pc = "loop" /\ TURNKEY_INIT /\ pc' = "exit" /\ attempt' = attempt + 1) =>
    /\ exitCode' = 0
    /\ services' = "asfound"
    /\ ConfigInPlace'
\* C24 (as claimed): when the operator answers the reconfigure question with
\* no, on the first attempt or after a failed one, the process exits with
\* code 0, no service has been stopped and the Samba and Kerberos
\* configuration is untouched
C24_DeclineLeavesConfig == [][C24_Step]_vars

\* C25 (as claimed): the hostname a join attempt has written to the hosts
\* file is one validate_hostname accepts: it is not the reserved default, has
\* no dot and no illegal character
C25_JoinHostnameValidated ==
  (/\ ~create
   /\ \E i \in DOMAIN disk.ops : disk.ops[i] = <<"write", HOSTS_FILE>>
   /\ pc \in {"run", "log", "report", "fatal_cmd", "after_loop"}) =>
    HostnameSyntaxErr(hostname, DEFAULT_HOSTNAME) = ""

\* the messages with which the validators end a non-interactive session
ValidationErrors ==
  {"realm length", "realm segment length", "realm segment characters",
   "netbios length", "netbios characters"} \cup HostnameErrors

\* C26 (as claimed): a non-interactive session that has ended on a
\* validation error has changed no file and stopped no service
C26_ValidationExitNoChange ==
  (pc = "exit" /\ ~interactive /\ stderr_msg \in ValidationErrors) =>
    /\ exitCode = 1
    /\ disk.files = snap
    /\ disk.ops = <<>>
    /\ services = "asfound"

\* C27: in a non-interactive session no dialog of any kind has been shown;
\* realm, domain and password are those of the command line; an exit with
\* code 1 has a message on the error stream; and the summary went to
\* standard output
C27_NoPromptsNonInteractive ==
  (pc # "start" /\ ~interactive) =>
    /\ dialogs = {} /\ shown_error = <<>>
    /\ opts.pass # <<>> /\ opts.realm # <<>> /\ opts.domain # <<>>
    /\ pc # "exit" =>
         /\ admin_password = opts.pass
         /\ realm \in {opts.realm, validate_realm(opts.realm)}
         /\ domain \in {opts.domain, validate_netbios(opts.domain)}
    /\ pc \notin {"realm_ask", "domain_ask", "ns_ask", "host_ask", "report"}
    /\ (pc = "exit" /\ exitCode = 1) => stderr_msg # ""
    /\ summary \in {"", "stdout"}
    /\ (pc = "exit" /\ exitCode = 0) => summary = "stdout"
\* a non-interactive join has run to its end and printed its summary
C27_Witness ==
  /\ pc = "exit" /\ ~interactive /\ ~create /\ exitCode = 0
  /\ summary = "stdout" /\ Len(ran) = 3

====
